---- MODULE Spec2Model ----
(***************************************************************************)
(* A model of the three programs of ras_eye:                               *)
(*   ras_eye01.cpp   face tracking, distance and LED, all inline in main   *)
(*   ras_eye02.cpp   the same loop split into functions                    *)
(*   tyouonpa01.cpp  the ultrasonic sensor and LED test program            *)
(*                                                                         *)
(* Units.                                                                  *)
(*   Servo commands are C++ floats.  Every float in [512, 2048) is a       *)
(*   multiple of 2^-14, so a command is held as an integer number of       *)
(*   2^-14 microseconds (U per microsecond) and the float operations are   *)
(*   computed with IEEE-754 single precision rounding (nearest, ties to    *)
(*   even).                                                                *)
(*   Time is in microseconds.  Distances are in 1/20000 cm, so that        *)
(*   duration_us * 34300 / 2 / 1000000 cm is exactly duration_us * 343.    *)
(*   For a whole number of microseconds no comparison the programs make    *)
(*   on a distance (< 0, > 0, > 400, < 40, <= 45, != 999) falls within     *)
(*   a float's rounding of its limit, so distances are held exactly.       *)
(*                                                                         *)
(* Not modelled: the wrap of gpioTick after 2^32 microseconds, the         *)
(* opening of the camera and of pigpio, and the console output.            *)
(***************************************************************************)
EXTENDS Integers, Sequences, FiniteSets, TLC

\* ---------------------------------------------------------------- bounds
MaxCycles == 1
MaxPolls == 2

\* ------------------------------------------------------ program constants
CAMERA_WIDTH == 640
CAMERA_HEIGHT == 480
CAMERA_CENTER_X == CAMERA_WIDTH \div 2
CAMERA_CENTER_Y == CAMERA_HEIGHT \div 2
DEAD_ZONE_narrow == 15 - 1
DEAD_ZONE == 15

\* const float Kp = 0.005: the nearest float is 10737418 * 2^-31, that is
\* 5368709 * 2^-30.  The gains are held in units of 2^-30.
Kp_PAN_half == 5368709 \div 2
Kp_PAN == 5368709
Kp_TILT == 5368709

\* Command units per microsecond of pulse width (2^14).
U == 16384
\* Units of 2^-30 per command unit (2^16).
FracUnits == 65536
\* Number of values of a float mantissa (2^24).
MantissaLimit == 16777216

MIN_CMD == 1000 * U
MAX_CMD == 2000 * U
INITIAL_CMD == 1500 * U

\* ------------------------------------------------------- float arithmetic
Abs(n) == IF n < 0 THEN -n ELSE n

\* The number of low bits a positive integer has beyond a 24 bit mantissa.
RECURSIVE ExcessBits(_)
ExcessBits(n) == IF n < MantissaLimit THEN 0 ELSE 1 + ExcessBits(n \div 2)

\* n / 2^k rounded to the nearest integer, ties to even (n >= 0, k >= 1).
RoundNearestEven(n, k) ==
    LET q == n \div (2 ^ k)
        r == n % (2 ^ k)
        h == 2 ^ (k - 1)
    IN  IF r > h \/ (r = h /\ q % 2 = 1) THEN q + 1 ELSE q

\* float * int: the gain kp (units of 2^-30) times the pixel error e, rounded
\* to a float; the result is in units of 2^-30.
F32Mul(kp, e) ==
    LET n == kp * Abs(e)
        k == ExcessBits(n)
        m == IF k = 0 THEN n ELSE RoundNearestEven(n, k) * (2 ^ k)
    IN  IF e < 0 THEN -m ELSE m

\* float - float: the command p (units of 2^-14) minus q (units of 2^-30),
\* rounded to a float of [512, 2048); the result is in units of 2^-14.
\* The exact difference is a + fn / 2^16 with 0 <= fn < 2^16.
F32Sub(p, q) ==
    LET qh == q \div FracUnits
        ql == q % FracUnits
        a  == p - qh - (IF ql > 0 THEN 1 ELSE 0)
        fn == (FracUnits - ql) % FracUnits
        half == FracUnits \div 2
    IN  IF a < 1024 * U
        THEN \* [512, 1024): floats are 2^-14 apart
             IF fn > half \/ (fn = half /\ a % 2 = 1) THEN a + 1 ELSE a
        ELSE \* [1024, 2048): floats are 2^-13 apart
             LET b == a \div 2
                 up == (a % 2 = 1) /\ (fn > 0 \/ b % 2 = 1)
             IN  IF up THEN 2 * (b + 1) ELSE 2 * b

F32Add(p, q) == F32Sub(p, -q)

\* ------------------------------------------------------ sensor constants
\* Distance units per centimetre.
CM == 20000
\* Distance units per microsecond of echo pulse: 34300 cm/s / 2.
SOUND_SPEED_CM_PER_S == 343
MAX_RANGE == 400 * CM
\* float DISTANCE_THRESHOLD = 40.0 and float WARNING_DISTANCE_CM = 45.0
DISTANCE_THRESHOLD == 40 * CM
WARNING_DISTANCE_CM == 45 * CM
\* The failure values: 999.0 (ras_eye01, ras_eye02) and -1.0 (tyouonpa01).
INVALID_999 == 999 * CM
INVALID_NEG == -CM
\* The echo wait timeouts in microseconds: 0.05 s, 0.1 s and 50000 ticks.
TIMEOUT_01 == 50000
TIMEOUT_02 == 100000
TIMEOUT_T == 50000

Programs == {"ras_eye01", "ras_eye02", "tyouonpa01"}

\* The warning threshold is a compiled-in constant: 40 cm in ras_eye01 and
\* ras_eye02, 45 cm in tyouonpa01.  Beside the program's own value the model
\* admits one above the 999 cm failure value, so that a statement made for
\* every threshold is decided.
ThresholdsOf(p) ==
    {IF p = "tyouonpa01" THEN WARNING_DISTANCE_CM ELSE DISTANCE_THRESHOLD, 1000 * CM}

\* The time that passes between two steps, in microseconds: none, a 1000 us
\* pulse, a pulse beyond the 400 cm range, a stall longer than 50 ms (the
\* programs run as ordinary processes and may be descheduled).
Steps == {0, 1000, 26240, 60000}

\* What the face detector reports: (-1, -1) for no face, else the centre of
\* the largest face, a pixel of the 640 x 480 frame.
NO_FACE == <<-1, -1>>
Faces == { <<320, 240>>, <<335, 340>>, <<305, 140>>, <<420, 255>>, <<220, 225>>,
           <<336, 256>>, <<304, 224>>, <<500, 340>>, <<20, 40>> }

\* Commands the loop holds after enough cycles: the centre it starts from and
\* the two ends of the range, reached from the centre after some 320 cycles
\* of a face at the frame's edge.
StartCmds == {INITIAL_CMD, MIN_CMD, MAX_CMD}

VARIABLES
    prog,               \* which of the three programs runs
    threshold,          \* its warning threshold
    pc,                 \* the position in main
    cycle,              \* completed iterations of the main loop
    pan, tilt,          \* current_pan_angle, current_tilt_angle
    nose_x, nose_y,     \* the face position of this iteration
    pan_in, tilt_in,    \* history: the commands when the iteration began
    written,            \* history: the servo axes written in this iteration
    pan_out, tilt_out,  \* the pulse widths last passed to gpioServo
    now,                \* the clock, from the start of the measurement
    pulse_start_time,   \* pulse_start_time / start_time_us
    pulse_end_time,     \* pulse_end_time / end_time_us
    timeout_start,      \* timeout_start (ras_eye02)
    polls,              \* iterations of the current echo wait loop
    wait_start,         \* history: the clock when the current wait began
    timed_out,          \* history: an echo wait ended by its timeout test
    computed,           \* history: the duration and distance were computed
    pulse_duration,     \* pulse_duration / pulse_duration_us
    distance_cm,        \* the value the measurement returned
    led,                \* the level last written to LED_PIN
    done                \* history: the steps of this iteration, in order

ctl == <<pan, tilt, nose_x, nose_y, pan_in, tilt_in, written, pan_out, tilt_out>>
sensor == <<now, pulse_start_time, pulse_end_time, timeout_start, polls,
            wait_start, timed_out, computed, pulse_duration, distance_cm>>
vars == <<prog, threshold, pc, cycle, ctl, sensor, led, done>>

Init ==
    /\ prog \in Programs
    /\ threshold \in ThresholdsOf(prog)
    /\ pc = "loop"
    /\ cycle = 0
    /\ pan \in (IF prog = "tyouonpa01" THEN {INITIAL_CMD} ELSE StartCmds)
    /\ tilt = pan
    /\ nose_x = -1 /\ nose_y = -1
    /\ pan_in = pan /\ tilt_in = tilt
    /\ written = {}
    /\ pan_out = pan \div U /\ tilt_out = tilt \div U
    /\ now = 0 /\ pulse_start_time = 0 /\ pulse_end_time = 0 /\ timeout_start = 0
    /\ polls = 0 /\ wait_start = 0
    /\ timed_out = FALSE /\ computed = FALSE
    /\ pulse_duration = 0 /\ distance_cm = 0
    /\ led = 0
    /\ done = <<>>

\* ------------------------------------------------------------ controller
Clamp_upper_only(v) == IF v > MAX_CMD THEN MAX_CMD ELSE v
Clamp(v) == IF v < MIN_CMD THEN MIN_CMD ELSE IF v > MAX_CMD THEN MAX_CMD ELSE v

\* static_cast<unsigned int>(command): truncation to whole microseconds.
ServoPulse(v) == v \div U

\* The new command of each axis, and whether the axis is recomputed.
PanMoves(x) == Abs(x - CAMERA_CENTER_X) > DEAD_ZONE
TiltMoves(y) == Abs(y - CAMERA_CENTER_Y) > DEAD_ZONE
NewPan(p, x) == Clamp(F32Sub(p, F32Mul(Kp_PAN, x - CAMERA_CENTER_X)))
NewTilt_subtracting(t, y) == Clamp(F32Sub(t, F32Mul(Kp_TILT, y - CAMERA_CENTER_Y)))
NewTilt(t, y) == Clamp(F32Add(t, F32Mul(Kp_TILT, y - CAMERA_CENTER_Y)))

\* No face: control_pan_tilt returns at once and nothing is written.
Hold_recentre ==
    /\ pan' = INITIAL_CMD /\ tilt' = INITIAL_CMD
    /\ pan_out' = ServoPulse(pan') /\ tilt_out' = ServoPulse(tilt')
    /\ written' = {"pan", "tilt"}
Hold == UNCHANGED <<pan, tilt, pan_out, tilt_out, written>>

\* The assignments of the tracking block, shared by both programs.
Track ==
    /\ pan' = IF PanMoves(nose_x) THEN NewPan(pan, nose_x) ELSE pan
    /\ tilt' = IF TiltMoves(nose_y) THEN NewTilt(tilt, nose_y) ELSE tilt
    /\ pan_out' = IF PanMoves(nose_x) THEN ServoPulse(pan') ELSE pan_out
    /\ tilt_out' = IF TiltMoves(nose_y) THEN ServoPulse(tilt') ELSE tilt_out
    /\ written' = (IF PanMoves(nose_x) THEN {"pan"} ELSE {})
                    \cup (IF TiltMoves(nose_y) THEN {"tilt"} ELSE {})

\* ------------------------------------------------------------- main loop
\* cap >> frame: a frame arrives and the iteration begins.
CaptureFrame ==
    /\ pc = "loop" /\ prog # "tyouonpa01" /\ cycle < MaxCycles
    /\ pc' = "detect"
    /\ pan_in' = pan /\ tilt_in' = tilt
    /\ written' = {} /\ done' = <<>>
    /\ UNCHANGED <<prog, threshold, cycle, pan, tilt, nose_x, nose_y, pan_out, tilt_out,
                   sensor, led>>

\* cap >> frame: the frame is empty and the loop ends.
CaptureFails ==
    /\ pc = "loop" /\ prog # "tyouonpa01" /\ cycle < MaxCycles
    /\ pc' = "exit"
    /\ UNCHANGED <<prog, threshold, cycle, ctl, sensor, led, done>>

\* Face detection: the largest face's centre, or (-1, -1).
find_nose ==
    /\ pc = "detect"
    /\ \E f \in Faces \cup {NO_FACE} : nose_x' = f[1] /\ nose_y' = f[2]
    /\ pc' = "control"
    /\ done' = Append(done, "locate")
    /\ UNCHANGED <<prog, threshold, cycle, pan, tilt, pan_in, tilt_in, written,
                   pan_out, tilt_out, sensor, led>>

\* ras_eye02: control_pan_tilt(nose_position.x, nose_position.y).
control_pan_tilt ==
    /\ pc = "control" /\ prog = "ras_eye02"
    /\ IF nose_x = -1 \/ nose_y = -1
       THEN Hold
       ELSE Track
    /\ pc' = "settle"
    /\ done' = Append(done, "update")
    /\ UNCHANGED <<prog, threshold, cycle, nose_x, nose_y, pan_in, tilt_in, sensor, led>>

\* ras_eye02: the 50 ms sleep, only when a face was found.
Settle02 ==
    /\ pc = "settle"
    /\ pc' = "measure"
    /\ done' = IF nose_x # -1 THEN Append(done, "settle") ELSE done
    /\ UNCHANGED <<prog, threshold, cycle, ctl, sensor, led>>

\* ras_eye01: the branch of a found face, up to and with the 50 ms sleep.
Track01 ==
    /\ pc = "control" /\ prog = "ras_eye01"
    /\ nose_x # -1 /\ nose_y # -1
    /\ Track
    /\ pc' = "measure"
    /\ done' = done \o <<"update", "settle">>
    /\ UNCHANGED <<prog, threshold, cycle, nose_x, nose_y, pan_in, tilt_in, sensor, led>>

\* ras_eye01: the branch of no face: both servos are written their current
\* commands again and the LED is switched off.
NoFace01 ==
    /\ pc = "control" /\ prog = "ras_eye01"
    /\ ~(nose_x # -1 /\ nose_y # -1)
    /\ pan_out' = ServoPulse(pan) /\ tilt_out' = ServoPulse(tilt)
    /\ written' = {"pan", "tilt"}
    /\ led' = 0
    /\ pc' = "sleep"
    /\ done' = done \o <<"update", "led">>
    /\ UNCHANGED <<prog, threshold, cycle, pan, tilt, nose_x, nose_y, pan_in, tilt_in, sensor>>

\* ----------------------------------------------------------- measurement
\* Time advances by some d of Steps at the start of every step below, and
\* all clock reads of one step see the same instant.  The clock reads 0 at
\* the first clock read of a measurement.  The echo line is read once per
\* step and may read either level: the Poll steps are the reads that keep
\* the loop going, the Edge steps the reads that end it.

\* distance_cm = duration * 34300 / 2, then the range filter.
Distance(duration) == duration * SOUND_SPEED_CM_PER_S
OutOfRange_upper_only(d) == d > MAX_RANGE
OutOfRange(d) == d < 0 \/ d > MAX_RANGE
Filter(d, invalid) == IF OutOfRange(d) THEN invalid ELSE d

\* The measurement returns: its clock readings and counters are gone.
Return ==
    /\ pc' = "led"
    /\ now' = 0 /\ pulse_start_time' = 0 /\ pulse_end_time' = 0
    /\ timeout_start' = 0 /\ polls' = 0 /\ wait_start' = 0

\* The computation after the two waits, and the return of its result.
Compute(invalid) ==
    /\ pulse_duration' = pulse_end_time - pulse_start_time
    /\ distance_cm' = Filter(Distance(pulse_duration'), invalid)
    /\ computed' = TRUE
    /\ Return

\* A return from inside a wait loop.
GiveUp(invalid) ==
    /\ distance_cm' = invalid
    /\ timed_out' = TRUE
    /\ Return
    /\ UNCHANGED <<computed, pulse_duration>>

\* The trigger pulse and the first clock reads, in all three programs.
Trigger ==
    /\ pc = "measure"
    /\ now' = 0 /\ pulse_start_time' = 0 /\ pulse_end_time' = 0
    /\ timeout_start' = 0 /\ wait_start' = 0 /\ polls' = 0
    /\ pc' = "wait_high"
    /\ done' = Append(done, "measure")
    /\ UNCHANGED <<prog, threshold, cycle, ctl, timed_out, computed, pulse_duration,
                   distance_cm, led>>

\* ras_eye02, the wait for the echo to rise: echo reads 0.
WaitHigh02Poll ==
    /\ pc = "wait_high" /\ prog = "ras_eye02" /\ polls < MaxPolls
    /\ \E d \in Steps :
         IF now + d - timeout_start > TIMEOUT_02
         THEN GiveUp(INVALID_999)
         ELSE /\ now' = now + d
              /\ pulse_start_time' = now'
              /\ polls' = polls + 1
              /\ UNCHANGED <<pc, pulse_end_time, timeout_start, wait_start, timed_out,
                             computed, pulse_duration, distance_cm>>
    /\ UNCHANGED <<prog, threshold, cycle, ctl, led, done>>

\* ras_eye02: echo reads 1; the timeout start is reset.
WaitHigh02Edge ==
    /\ pc = "wait_high" /\ prog = "ras_eye02"
    /\ \E d \in Steps : now' = now + d
    /\ timeout_start' = now' /\ wait_start' = now'
    /\ polls' = 0
    /\ pc' = "wait_low"
    /\ UNCHANGED <<prog, threshold, cycle, ctl, pulse_start_time, pulse_end_time,
                   timed_out, computed, pulse_duration, distance_cm, led, done>>

\* ras_eye02, the wait for the echo to fall: echo reads 1.
WaitLow02Poll ==
    /\ pc = "wait_low" /\ prog = "ras_eye02" /\ polls < MaxPolls
    /\ \E d \in Steps :
         IF now + d - timeout_start > TIMEOUT_02
         THEN GiveUp(INVALID_999)
         ELSE /\ now' = now + d
              /\ pulse_end_time' = now'
              /\ polls' = polls + 1
              /\ UNCHANGED <<pc, pulse_start_time, timeout_start, wait_start, timed_out,
                             computed, pulse_duration, distance_cm>>
    /\ UNCHANGED <<prog, threshold, cycle, ctl, led, done>>

\* ras_eye02: echo reads 0; the distance is computed and returned.
WaitLow02Edge ==
    /\ pc = "wait_low" /\ prog = "ras_eye02"
    /\ Compute(INVALID_999)
    /\ UNCHANGED <<prog, threshold, cycle, ctl, timed_out, led, done>>

\* ras_eye01, the wait for the echo to rise: echo reads 0.  The loop goes on
\* while less than 0.05 s have passed since pulse_start_time, which every
\* iteration sets to the current time.  No value is returned when the time
\* test ends the loop: the second wait follows.
WaitHigh01Poll ==
    /\ pc = "wait_high" /\ prog = "ras_eye01" /\ polls < MaxPolls
    /\ \E d \in Steps : now' = now + d
    /\ IF now' - pulse_start_time < TIMEOUT_01
       THEN /\ pulse_start_time' = now'
            /\ polls' = polls + 1
            /\ UNCHANGED <<pc, timed_out, wait_start>>
       ELSE /\ pc' = "wait_low"
            /\ timed_out' = TRUE
            /\ polls' = 0 /\ wait_start' = now'
            /\ UNCHANGED pulse_start_time
    /\ UNCHANGED <<prog, threshold, cycle, ctl, pulse_end_time, timeout_start,
                   computed, pulse_duration, distance_cm, led, done>>

\* ras_eye01: echo reads 1.
WaitHigh01Edge ==
    /\ pc = "wait_high" /\ prog = "ras_eye01"
    /\ \E d \in Steps : now' = now + d
    /\ pc' = "wait_low"
    /\ polls' = 0 /\ wait_start' = now'
    /\ UNCHANGED <<prog, threshold, cycle, ctl, pulse_start_time, pulse_end_time,
                   timeout_start, timed_out, computed, pulse_duration, distance_cm,
                   led, done>>

\* ras_eye01, the wait for the echo to fall: echo reads 1.  When the loop
\* ends by its time test the distance is computed all the same.
WaitLow01Poll ==
    /\ pc = "wait_low" /\ prog = "ras_eye01" /\ polls < MaxPolls
    /\ \E d \in Steps :
         IF now + d - pulse_end_time < TIMEOUT_01
         THEN /\ now' = now + d
              /\ pulse_end_time' = now'
              /\ polls' = polls + 1
              /\ UNCHANGED <<pc, pulse_start_time, timeout_start, wait_start, timed_out,
                             computed, pulse_duration, distance_cm>>
         ELSE /\ timed_out' = TRUE
              /\ Compute(INVALID_999)
    /\ UNCHANGED <<prog, threshold, cycle, ctl, led, done>>

\* ras_eye01: echo reads 0.
WaitLow01Edge ==
    /\ pc = "wait_low" /\ prog = "ras_eye01"
    /\ Compute(INVALID_999)
    /\ UNCHANGED <<prog, threshold, cycle, ctl, timed_out, led, done>>

\* tyouonpa01, the wait for the echo to rise: echo reads 0.  The time test
\* is against start_time_us, which every iteration sets to the current tick.
WaitHighTPoll ==
    /\ pc = "wait_high" /\ prog = "tyouonpa01" /\ polls < MaxPolls
    /\ \E d \in Steps :
         IF now + d - pulse_start_time > TIMEOUT_T
         THEN GiveUp(INVALID_NEG)
         ELSE /\ now' = now + d
              /\ pulse_start_time' = now'
              /\ polls' = polls + 1
              /\ UNCHANGED <<pc, pulse_end_time, timeout_start, wait_start, timed_out,
                             computed, pulse_duration, distance_cm>>
    /\ UNCHANGED <<prog, threshold, cycle, ctl, led, done>>

\* tyouonpa01: echo reads 1; end_time_us is set to the current tick.
WaitHighTEdge ==
    /\ pc = "wait_high" /\ prog = "tyouonpa01"
    /\ \E d \in Steps : now' = now + d
    /\ pulse_end_time' = now' /\ wait_start' = now'
    /\ polls' = 0
    /\ pc' = "wait_low"
    /\ UNCHANGED <<prog, threshold, cycle, ctl, pulse_start_time, timeout_start,
                   timed_out, computed, pulse_duration, distance_cm, led, done>>

\* tyouonpa01, the wait for the echo to fall: echo reads 1.
WaitLowTPoll ==
    /\ pc = "wait_low" /\ prog = "tyouonpa01" /\ polls < MaxPolls
    /\ \E d \in Steps :
         IF now + d - pulse_end_time > TIMEOUT_T
         THEN GiveUp(INVALID_NEG)
         ELSE /\ now' = now + d
              /\ pulse_end_time' = now'
              /\ polls' = polls + 1
              /\ UNCHANGED <<pc, pulse_start_time, timeout_start, wait_start, timed_out,
                             computed, pulse_duration, distance_cm>>
    /\ UNCHANGED <<prog, threshold, cycle, ctl, led, done>>

\* tyouonpa01: echo reads 0; the distance is computed and returned.
WaitLowTEdge ==
    /\ pc = "wait_low" /\ prog = "tyouonpa01"
    /\ Compute(INVALID_NEG)
    /\ UNCHANGED <<prog, threshold, cycle, ctl, timed_out, led, done>>

\* ------------------------------------------------------------------- LED
\* ras_eye01: if (distance_cm < DISTANCE_THRESHOLD).
Alert01(d) == d < threshold
\* ras_eye02: if (distance_cm != 999.0 && distance_cm < DISTANCE_THRESHOLD).
Alert02(d) == d # INVALID_999 /\ d < threshold
\* tyouonpa01: if (distance > 0) { if (distance <= WARNING_DISTANCE_CM) ...
AlertT(d) == d > 0 /\ d <= threshold

set_warning_led ==
    /\ pc = "led"
    /\ LET on == CASE prog = "ras_eye01" -> Alert01(distance_cm)
                   [] prog = "ras_eye02" -> Alert02(distance_cm)
                   [] OTHER -> AlertT(distance_cm)
       IN  led' = IF on THEN 1 ELSE 0
    /\ pc' = "sleep"
    /\ done' = Append(done, "led")
    /\ UNCHANGED <<prog, threshold, cycle, ctl, sensor>>

\* tyouonpa01: an iteration of its loop begins with the measurement.
LoopT ==
    /\ pc = "loop" /\ prog = "tyouonpa01" /\ cycle < MaxCycles
    /\ pc' = "measure"
    /\ done' = <<>>
    /\ UNCHANGED <<prog, threshold, cycle, ctl, sensor, led>>

\* The sleep that ends an iteration; the locals of the iteration are gone.
EndOfCycle ==
    /\ pc = "sleep"
    /\ pc' = "loop"
    /\ cycle' = cycle + 1
    /\ nose_x' = -1 /\ nose_y' = -1
    /\ pan_in' = pan /\ tilt_in' = tilt
    /\ written' = {} /\ done' = <<>>
    /\ timed_out' = FALSE /\ computed' = FALSE
    /\ pulse_duration' = 0 /\ distance_cm' = 0
    /\ UNCHANGED <<prog, threshold, pan, tilt, pan_out, tilt_out, now, pulse_start_time,
                   pulse_end_time, timeout_start, polls, wait_start, led>>

Next ==
    \/ CaptureFrame
    \/ CaptureFails
    \/ find_nose
    \/ control_pan_tilt
    \/ Settle02
    \/ Track01
    \/ NoFace01
    \/ LoopT
    \/ Trigger
    \/ WaitHigh02Poll \/ WaitHigh02Edge \/ WaitLow02Poll \/ WaitLow02Edge
    \/ WaitHigh01Poll \/ WaitHigh01Edge \/ WaitLow01Poll \/ WaitLow01Edge
    \/ WaitHighTPoll \/ WaitHighTEdge \/ WaitLowTPoll \/ WaitLowTEdge
    \/ set_warning_led
    \/ EndOfCycle

Spec == Init /\ [][Next]_vars
\* ================================================================ claims
Did(step) == \E i \in DOMAIN done : done[i] = step
FaceFound == nose_x # -1 /\ nose_y # -1
Returned == Did("measure") /\ pc \in {"led", "sleep"}
Sentinel == IF prog = "tyouonpa01" THEN -CM ELSE 999 * CM

\* C1: in every reachable state the pan command and the tilt command lie in
\* [1000, 2000]; an update from pan = 1000 with the face at x = 500 leaves
\* pan at exactly 1000.
C1_CommandsInRange ==
    /\ 1000 * U <= pan /\ pan <= 2000 * U
    /\ 1000 * U <= tilt /\ tilt <= 2000 * U
    /\ (Did("update") /\ pan_in = 1000 * U /\ nose_x = 500) => pan = 1000 * U

C1_Pinned == Did("update") /\ pan_in = 1000 * U /\ nose_x = 500 /\ pan = 1000 * U

\* C2: an echo wait never goes on once the time since the wait began has
\* passed the program's timeout: the measurement has returned by then.
C2_WaitBounded ==
    pc \in {"wait_high", "wait_low"} =>
        now - wait_start <= (IF prog = "ras_eye02" THEN 100000 ELSE 50000)

\* C3: after a valid reading d in [0, 400] cm the LED is on iff d is below
\* the threshold: off at d = threshold, on at d = 0.
C3_LedIffBelowThreshold ==
    (pc = "sleep" /\ Did("measure") /\ distance_cm # Sentinel
        /\ 0 <= distance_cm /\ distance_cm <= 400 * CM)
    => (led = 1 <=> distance_cm < threshold)

\* C4: after an invalid measurement (an echo wait timed out, the duration is
\* negative or the computed distance is outside [0, 400] cm) the LED is off,
\* whatever the threshold.
MeasurementInvalid ==
    \/ timed_out
    \/ computed /\ (pulse_duration < 0 \/ 343 * pulse_duration > 400 * CM)

C4_InvalidTurnsLedOff ==
    (pc = "sleep" /\ Did("measure") /\ MeasurementInvalid) => led = 0

\* C5: when no face is reported the update leaves the pan command and the
\* tilt command as they were before the iteration.
C5_NoFaceHolds ==
    (Did("update") /\ ~FaceFound) => (pan = pan_in /\ tilt = tilt_in)

C5_Held == Did("update") /\ ~FaceFound /\ pan = pan_in /\ tilt = tilt_in /\ pan = 1000 * U

\* C6: a face within 15 pixels of the centre column (15 included) leaves the
\* pan command unchanged whatever its row, and a face within 15 pixels of the
\* centre row leaves the tilt command unchanged whatever its column.
C6_DeadZone ==
    (Did("update") /\ FaceFound) =>
        /\ (nose_x - 320 <= 15 /\ 320 - nose_x <= 15) => pan = pan_in
        /\ (nose_y - 240 <= 15 /\ 240 - nose_y <= 15) => tilt = tilt_in

C6_EdgeOfDeadZone ==
    /\ Did("update") /\ nose_x = 335 /\ nose_y = 340
    /\ pan = pan_in /\ tilt # tilt_in

\* C7 as stated: from pan = 1500 an update with the face at x = 420 gives the
\* pan command 1495.0.
C7_Gives1495 ==
    (Did("update") /\ pan_in = 1500 * U /\ nose_x = 420) => pan = 1495 * U

\* C7 as amended: from pan = 1500 an update with the face at x = 420 gives the
\* pan command 1499.5 (1500 - 0.005 * 100).
C7_Gives1499_5 ==
    (Did("update") /\ pan_in = 1500 * U /\ nose_x = 420) => 2 * pan = 2999 * U

C7_Moved == Did("update") /\ pan_in = 1500 * U /\ nose_x = 420 /\ 2 * pan = 2999 * U

\* C8: outside the dead zone pan' = clamp(pan - 0.005 * error_x) and
\* tilt' = clamp(tilt + 0.005 * error_y), to the precision of a float (one
\* unit of 2^-14 and the gain's own rounding: 210/200 units); a face right of
\* the centre never raises pan and a face below it never lowers tilt.
\* Rule(old, new, e) states new = clamp(old - e / 200) for e in pixels.
Rule(old, new, e) ==
    \/ /\ new = 1000 * U
       /\ old - 1000 * U <= (U * e + 210) \div 200
    \/ /\ new = 2000 * U
       /\ 2000 * U - old <= (210 - U * e) \div 200
    \/ /\ 1000 * U <= new /\ new <= 2000 * U
       /\ 200 * (old - new) - U * e <= 210
       /\ U * e - 200 * (old - new) <= 210

C8_OppositeSigns ==
    (Did("update") /\ FaceFound) =>
        /\ nose_x - 320 > 15 => (pan <= pan_in /\ Rule(pan_in, pan, nose_x - 320))
        /\ 320 - nose_x > 15 => (pan >= pan_in /\ Rule(pan_in, pan, nose_x - 320))
        /\ nose_y - 240 > 15 => (tilt >= tilt_in /\ Rule(tilt_in, tilt, 240 - nose_y))
        /\ 240 - nose_y > 15 => (tilt <= tilt_in /\ Rule(tilt_in, tilt, 240 - nose_y))

C8_BothMoved ==
    /\ Did("update") /\ nose_x = 500 /\ nose_y = 340
    /\ pan < pan_in /\ tilt > tilt_in

\* C9: the measurement returns a valid reading only when the pulse duration
\* was computed, is not negative and gives a distance in [0, 400] cm, and
\* then the reading is duration * 34300 / 2; a 1000 us pulse reads 17.15 cm
\* and a pulse of 450 cm or more reads invalid.
C9_ValidOnlyInRange ==
    Returned =>
        LET inRange == computed /\ pulse_duration >= 0
                         /\ 343 * pulse_duration <= 400 * CM
        IN  /\ distance_cm # Sentinel => inRange
            /\ inRange => distance_cm = 343 * pulse_duration
            /\ (computed /\ pulse_duration = 1000) => distance_cm = 1715 * (CM \div 100)
            /\ (computed /\ 343 * pulse_duration >= 450 * CM) => distance_cm = Sentinel

C9_Reads17_15 ==
    Returned /\ computed /\ pulse_duration = 1000 /\ distance_cm = 1715 * (CM \div 100)

\* C10: an iteration with a frame runs locate, update, measurement, LED write
\* in this order, with the settle sleep after the update exactly when a face
\* was found; the measurement is made with and without a face.
C10_StepOrder ==
    (pc = "sleep" /\ prog # "tyouonpa01") =>
        done = IF nose_x # -1
               THEN <<"locate", "update", "settle", "measure", "led">>
               ELSE <<"locate", "update", "measure", "led">>
\* C11: within one loop iteration a servo command is written to the actuator
\* port for an axis only if that axis was recomputed in that iteration: the
\* pan servo is not written when no face was found or |error_x| <= DEAD_ZONE,
\* and the tilt servo is not written when no face was found or
\* |error_y| <= DEAD_ZONE.
C11_WritesOnlyRecomputed ==
    /\ "pan" \in written => (FaceFound /\ Abs(nose_x - CAMERA_CENTER_X) > DEAD_ZONE)
    /\ "tilt" \in written => (FaceFound /\ Abs(nose_y - CAMERA_CENTER_Y) > DEAD_ZONE)
====
